---- MODULE Spec2Model ----
(***************************************************************************)
(* VedhVaani Kundali Engine (main.py): house bucketing, the /kundali and   *)
(* /kundali-pdf handlers and the two chart renderers.                      *)
(*                                                                         *)
(* Longitudes are Python floats.  They are modelled as binary floating     *)
(* point numbers on a half-degree grid: a value is an integer count of     *)
(* half-degrees whose significand has at most Prec bits, and every         *)
(* arithmetic result is rounded to the nearest such value, ties to even,   *)
(* as IEEE-754 does with 53 bits.  360, 180 and 30 degrees are exactly     *)
(* representable, as they are in a double.                                 *)
(***************************************************************************)
EXTENDS Integers, Sequences, FiniteSets, TLC

VARIABLES
    hpc, hL, hA, hOut, hShift,          \* get_house_number on drawn inputs
    fr,                                 \* one frame per request being handled
    topo,                               \* the observer held by the ephemeris library
    files,                              \* temporary files: path -> saved canvas
    swelib,                             \* return shapes of the installed ephemeris
    sched,                              \* "any": requests interleave; "seq": one at a time
    cpc, cStyle, cPlanets, cAsc, cLang, cLabels  \* a chart renderer on drawn inputs

houseVars == <<hpc, hL, hA, hOut, hShift>>
reqVars == <<fr, topo, files, swelib, sched>>
chartVars == <<cpc, cStyle, cPlanets, cAsc, cLang, cLabels>>
vars == <<houseVars, reqVars, chartVars>>

\* No get_house_number call under way.
IdleHouse == hpc = "off" /\ hL = 0 /\ hA = 0 /\ hOut = 0 /\ hShift = 0

\* No request under way.
IdleRequests ==
    /\ fr = <<>>
    /\ topo = <<0, 0, 0>>
    /\ files = <<>>
    /\ swelib = "nested"
    /\ sched = "any"

\* No chart being drawn.
IdleChart ==
    /\ cpc = "off"
    /\ cStyle = "north"
    /\ cPlanets = <<>>
    /\ cAsc = 0
    /\ cLang = "en"
    /\ cLabels = <<>>

\* Bits of significand of the modelled float (53 in a double).
Prec == 9
\* Largest magnitude, in degrees, of the longitudes fed to get_house_number.
MaxLon == 400
\* Ascendants fed to get_house_number are the floats that are multiples of
\* this many half-degrees.
AscStride == 61

----------------------------------------------------------------------------
(* Float arithmetic *)

\* F applied to the value v: a local variable bound once.
With(v, F(_)) == F(v)

\* d degrees on the half-degree grid.
Deg(d) == 2 * d

Abs(x) == IF x < 0 THEN -x ELSE x

RECURSIVE Pow2(_)
Pow2(n) == IF n = 0 THEN 1 ELSE 2 * Pow2(n - 1)

\* Spacing of the floats around magnitude a (s is the spacing tried).
RECURSIVE Ulp(_, _)
Ulp(a, s) == IF a < Pow2(Prec) * s THEN s ELSE Ulp(a, 2 * s)

\* The multiple of the spacing s nearest to a >= 0, ties to the even multiple.
RoundTo(a, s) ==
    IF 2 * (a % s) > s \/ (2 * (a % s) = s /\ (a \div s) % 2 = 1)
    THEN (a \div s + 1) * s
    ELSE (a \div s) * s

\* Round to nearest float, ties to even.
Fl(n) ==
    IF n < 0 THEN -RoundTo(-n, Ulp(-n, 1)) ELSE RoundTo(n, Ulp(n, 1))

IsFloat(n) == Fl(n) = n

FAdd(a, b) == Fl(a + b)
FSub(a, b) == Fl(a - b)

\* C fmod: exact, sign of the dividend.
Fmod(x, y) == IF x < 0 THEN -(Abs(x) % y) ELSE x % y

\* A port that keeps C's remainder instead of Python's.
PyModTrunc(x, y) == Fmod(x, y)

\* Python float x % y, y > 0: fmod, then y is added (rounded) when the
\* remainder is negative.
PyMod(x, y) ==
    With(Fmod(x, y), LAMBDA mod : IF mod < 0 THEN FAdd(mod, y) ELSE mod)

\* Python float x // y for y > 0: (x - fmod(x, y)) / y, one less when the
\* remainder is negative.  The quotient is an exact integer.
PyFloorDiv(x, y) ==
    With(Fmod(x, y), LAMBDA mod :
        IF mod < 0 THEN FSub(x, mod) \div y - 1 ELSE FSub(x, mod) \div y)

----------------------------------------------------------------------------
(* get_house_number *)

\* Without the final wrap of 13 to 1.
get_house_number_nowrap(planet_long, asc_long) ==
    With(PyMod(FSub(planet_long, asc_long), Deg(360)), LAMBDA diff :
        PyFloorDiv(diff, Deg(30)) + 1)

\* Measuring from the planet to the ascendant.
get_house_number_reversed(planet_long, asc_long) ==
    With(PyMod(FSub(asc_long, planet_long), Deg(360)), LAMBDA diff :
    With(PyFloorDiv(diff, Deg(30)) + 1, LAMBDA house :
        IF house > 12 THEN house - 12 ELSE house))

get_house_number(planet_long, asc_long) ==
    With(PyMod(FSub(planet_long, asc_long), Deg(360)), LAMBDA diff :
    With(PyFloorDiv(diff, Deg(30)) + 1, LAMBDA house :
        IF house > 12 THEN house - 12 ELSE house))

----------------------------------------------------------------------------
(* House bucketing applied to drawn inputs *)

Lons == {n \in -Deg(MaxLon)..Deg(MaxLon) : IsFloat(n)}
Ascs == {n \in Lons : n % AscStride = 0}

InitHouse ==
    /\ hpc = "in"
    /\ hL \in Lons
    /\ hA \in Ascs
    /\ hOut = 0
    /\ hShift = 0
    /\ IdleRequests
    /\ IdleChart

\* house = get_house_number(lon, asc_long)
CallHouse ==
    /\ hpc = "in"
    /\ hOut' = get_house_number(hL, hA)
    /\ hpc' = "housed"
    /\ UNCHANGED <<hL, hA, hShift, reqVars, chartVars>>

\* get_house_number(L + 360, A)
CallShifted ==
    /\ hpc = "housed"
    /\ hShift' = get_house_number(FAdd(hL, Deg(360)), hA)
    /\ hpc' = "shifted"
    /\ UNCHANGED <<hL, hA, hOut, reqVars, chartVars>>

NextHouse == CallHouse \/ CallShifted

SpecHouse == InitHouse /\ [][NextHouse]_vars

----------------------------------------------------------------------------
(* Claims about get_house_number *)

\* C1: for every planet longitude L and ascendant A, negative values and
\* values of 360 or more included, get_house_number returns a house in 1..12.
HouseInRange ==
    /\ hpc # "in" => hOut \in 1..12
    /\ hpc = "shifted" => hShift \in 1..12

\* C1 witness: a negative longitude just below a negative ascendant, where the
\* remainder rounds up to 360 itself and house 13 is wrapped to 1.
HouseInRangeWitness ==
    /\ hpc = "housed"
    /\ hL < 0
    /\ hL < hA
    /\ PyMod(FSub(hL, hA), Deg(360)) = Deg(360)
    /\ hOut = 1

\* C2 as stated: the house of L + 360 is the house of L.
HousePeriodic == hpc = "shifted" => hShift = hOut

\* No rounding in L + 360, L - A or (L + 360) - A.
ShiftExact ==
    /\ FAdd(hL, Deg(360)) = hL + Deg(360)
    /\ FSub(hL, hA) = hL - hA
    /\ FSub(FAdd(hL, Deg(360)), hA) = hL + Deg(360) - hA

\* C2 amended: the house of L + 360 is the house of L whenever the float
\* operations L + 360, L - A and (L + 360) - A are exact.
HousePeriodicExact == (hpc = "shifted" /\ ShiftExact) => hShift = hOut

\* C2 witness: an exact shift from a negative difference to a positive one.
HousePeriodicWitness ==
    /\ hpc = "shifted"
    /\ ShiftExact
    /\ hL - hA < 0
    /\ hL + Deg(360) - hA > 0
    /\ hShift = hOut

\* The reference house of a remainder d in [0, 360]: the sector of 30
\* degrees that holds d, and 13 - 12 = 1 for d = 360.
HouseRef(d) ==
    IF d = Deg(360) THEN 1
    ELSE CHOOSE h \in 1..12 : Deg(30) * (h - 1) <= d /\ d < Deg(30) * h

\* C3: get_house_number(L, A) is floor(((L - A) mod 360) / 30) + 1, less 12
\* when that exceeds 12, and a planet exactly on the ascendant is in house 1.
HouseMatchesReference ==
    hpc # "in" =>
        /\ hOut = HouseRef(PyMod(FSub(hL, hA), Deg(360)))
        /\ hL = hA => hOut = 1

\* C3 witness: a planet exactly on a non-zero ascendant, placed in house 1.
HouseMatchesReferenceWitness ==
    /\ hpc = "housed"
    /\ hL = hA
    /\ hA # 0
    /\ hOut = 1

----------------------------------------------------------------------------
(* Tables of main.py.  Devanagari names are written in Harvard-Kyoto        *)
(* transliteration, which keeps every pair of distinct names distinct.      *)

GrahaLangs == {"hi", "mr", "en"}

\* A table whose Marathi row repeats the name of Rahu for Ketu.
graha_names_dup(lang) ==
    CASE lang = "hi" -> <<"sUrya", "caMdra", "maMgala", "budha", "bRhaspati",
                          "zukra", "zani", "rAhu", "ketu">>
      [] lang = "mr" -> <<"sUrya", "caMdra", "maMgaLa", "budha", "gurU",
                          "zukra", "zanI", "rAhu", "rAhu">>
      [] lang = "en" -> <<"Sun", "Moon", "Mars", "Mercury", "Jupiter",
                          "Venus", "Saturn", "Rahu", "Ketu">>

graha_names(lang) ==
    CASE lang = "hi" -> <<"sUrya", "caMdra", "maMgala", "budha", "bRhaspati",
                          "zukra", "zani", "rAhu", "ketu">>
      [] lang = "mr" -> <<"sUrya", "caMdra", "maMgaLa", "budha", "gurU",
                          "zukra", "zanI", "rAhu", "ketu">>
      [] lang = "en" -> <<"Sun", "Moon", "Mars", "Mercury", "Jupiter",
                          "Venus", "Saturn", "Rahu", "Ketu">>

\* planet_colors.get(graha, colors.black)
planet_color(graha) ==
    CASE graha \in {"Sun", "sUrya"} -> "red"
      [] graha \in {"Moon", "caMdra"} -> "gray"
      [] graha \in {"Mars", "maMgala"} -> "orange"
      [] graha \in {"Mercury", "budha"} -> "green"
      [] graha \in {"Jupiter", "bRhaspati"} -> "blue"
      [] graha \in {"Venus", "zukra"} -> "pink"
      [] graha \in {"Saturn", "zani"} -> "black"
      [] graha \in {"Rahu", "rAhu"} -> "brown"
      [] graha \in {"Ketu", "ketu"} -> "purple"
      [] OTHER -> "black"

\* rashifal_text.get(lang, rashifal_text["en"])
rashifal(lang) ==
    CASE lang = "hi" -> "yaha eka Demo rAziphala hai"
      [] lang = "mr" -> "hA eka Demo rAzibhaviSya Ahe"
      [] OTHER -> "This is a demo horoscope."

\* The bodies passed to safe_calc_ut, in the order of the planets dict.
Bodies == <<"SUN", "MOON", "MARS", "MERCURY", "JUPITER", "VENUS", "SATURN",
            "MEAN_NODE">>

----------------------------------------------------------------------------
(* Python values returned by the ephemeris, and exceptions *)

Num(x) == [t |-> "num", v |-> x]
Str(x) == [t |-> "str", v |-> x]
Tup(s) == [t |-> "tup", v |-> s]

Exc(type, msg) == [type |-> type, msg |-> msg]
NoExc == Exc("", "")

\* The outcome of a call: a value, or an exception raised.
Ret(v) == [raised |-> FALSE, exc |-> NoExc, v |-> v]
Raise(type, msg) == [raised |-> TRUE, exc |-> Exc(type, msg), v |-> 0]

\* float(o)
PyFloat(o) ==
    IF o.t = "num" THEN Ret(o.v)
    ELSE IF o.t = "str" THEN Raise("ValueError", "could not convert string to float")
    ELSE Raise("TypeError", "float() argument must be a string or a number")

\* o[i], i counted from 0
PyItem(o, i) ==
    IF o.t # "tup" THEN Raise("TypeError", "object is not subscriptable")
    ELSE IF i >= Len(o.v) THEN Raise("IndexError", "tuple index out of range")
    ELSE Ret(o.v[i + 1])

----------------------------------------------------------------------------
(* The ephemeris library (swisseph), as far as main.py depends on it *)

\* Julian day number of a Gregorian date (Fliegel and Van Flandern).
JulianDayNumber(y, m, d) ==
    LET a == (14 - m) \div 12
        yy == y + 4800 - a
        mm == m + 12 * a - 3
    IN  d + (153 * mm + 2) \div 5 + 365 * yy + yy \div 4 - yy \div 100
          + yy \div 400 - 32045

\* swe.julday(year, month, day, hour), in minutes counted from
\* 2000-01-01 12:00 (Julian day 2451545.0); a Julian day starts at noon.
julday(y, m, d, minutes) ==
    (JulianDayNumber(y, m, d) - 2451545) * 1440 - 720 + minutes

\* The built-in ephemeris covers the years up to 3000.
EphemerisCovers(jd) == jd < julday(3000, 1, 1, 0)

\* A longitude normalised into [0, 360) as a float.
DegNorm(x) ==
    With(Fl(x % Deg(360)), LAMBDA v : IF v >= Deg(360) THEN 0 ELSE v)

\* Geocentric mean longitude of a body: half-degrees at 2000-01-01 12:00 and
\* half-degrees moved in 100 days.
MeanLon(planet, jd) ==
    LET d == jd \div 1440
        at0 == CASE planet = "SUN" -> 561 [] planet = "MOON" -> 437
                 [] planet = "MARS" -> 711 [] planet = "MERCURY" -> 504
                 [] planet = "JUPITER" -> 69 [] planet = "VENUS" -> 364
                 [] planet = "SATURN" -> 100 [] planet = "MEAN_NODE" -> 250
        rate == CASE planet = "SUN" -> 197 [] planet = "MOON" -> 2635
                 [] planet = "MARS" -> 105 [] planet = "MERCURY" -> 199
                 [] planet = "JUPITER" -> 17 [] planet = "VENUS" -> 195
                 [] planet = "SATURN" -> 7 [] planet = "MEAN_NODE" -> -11
    IN  at0 + (rate * d) \div 100

\* The shift of a topocentric position: it depends on the observer last given
\* to swe.set_topo.
Parallax(planet, tp) == IF planet = "MOON" THEN tp[2] \div 10 ELSE 0

\* The flags of swe.calc_ut(jd, planet): none is passed, so the defaults.
CalcFlagsTopo == {"FLG_SWIEPH", "FLG_SPEED", "FLG_TOPOCTR"}

CalcFlags == {"FLG_SWIEPH", "FLG_SPEED"}

\* swe.calc_ut(jd, planet): tp is the observer the library holds, lib the
\* shape in which the installed build returns the position.
swe_calc_ut(jd, planet, tp, lib) ==
    IF ~EphemerisCovers(jd)
    THEN Raise("swisseph.Error", "jd outside the ephemeris range")
    ELSE
        With(DegNorm(IF "FLG_TOPOCTR" \in CalcFlags
                     THEN MeanLon(planet, jd) + Parallax(planet, tp)
                     ELSE MeanLon(planet, jd)),
             LAMBDA lon :
                CASE lib = "flat" -> Ret(Tup(<<Num(lon), Num(0), Num(1)>>))
                  [] lib = "nested" ->
                        Ret(Tup(<<Tup(<<Num(lon), Num(0), Num(1)>>), Num(258)>>))
                  [] lib = "tagged" -> Ret(Tup(<<Str("lon"), Num(lon)>>))
                  [] lib = "void" -> Ret(Tup(<<>>)))

\* The ascendant: the ecliptic turns once a day past the eastern horizon.
AscLon(jd, lat, lon) == DegNorm(jd \div 2 + Deg(lon) + lat)

\* swe.houses(jd, lat, lon, hsys): Placidus houses do not exist beyond the
\* polar circles.
swe_houses(jd, lat, lon, hsys, lib) ==
    IF hsys = "P" /\ Abs(lat) >= 67
    THEN Raise("swisseph.Error", "swe_houses: error while computing")
    ELSE
        With(AscLon(jd, lat, lon), LAMBDA a :
        With(Tup(<<Num(a), Num(DegNorm(a + Deg(270)))>>), LAMBDA ascmc :
        With(Tup(<<Num(a), Num(DegNorm(a + Deg(30)))>>), LAMBDA cusps :
            CASE lib = "nested" -> Ret(Tup(<<cusps, ascmc>>))
              [] lib = "tagged" -> Ret(Tup(<<ascmc>>))
              [] lib = "flat" -> Ret(ascmc)
              [] lib = "void" -> Ret(Tup(<<>>)))))

----------------------------------------------------------------------------
(* safe_calc_ut and safe_houses *)

\* for item in result: the first item float() accepts, else None (ok = FALSE).
RECURSIVE ScanItems(_, _)
ScanItems(items, i) ==
    IF i > Len(items) THEN [ok |-> FALSE, v |-> 0]
    ELSE With(PyFloat(items[i]), LAMBDA f :
            IF f.raised THEN ScanItems(items, i + 1)
            ELSE [ok |-> TRUE, v |-> f.v])

safe_calc_ut(jd, planet, tp, lib) ==
    With(swe_calc_ut(jd, planet, tp, lib), LAMBDA call :
        IF call.raised THEN call
        ELSE
            With(call.v, LAMBDA result :
            \* first = result[0]
            With(PyItem(result, 0), LAMBDA first :
            \* lon = float(first[0]) or float(first), or the exception raised
            With(IF first.raised THEN first
                 ELSE IF first.v.t = "tup"
                 THEN With(PyItem(first.v, 0), LAMBDA inner :
                          IF inner.raised THEN inner ELSE PyFloat(inner.v))
                 ELSE PyFloat(first.v),
                 LAMBDA direct :
            \* except Exception: the first item of result float() accepts
            With(IF ~direct.raised THEN [ok |-> TRUE, v |-> direct.v]
                 ELSE ScanItems(result.v, 1),
                 LAMBDA lon :
                IF lon.ok THEN Ret(lon.v)
                ELSE Raise("RuntimeError", "Cannot parse calc_ut result"))))))

\* scan(obj) of safe_houses: the first number in [0, 360) found depth-first,
\* else None (ok = FALSE).
RECURSIVE ScanAsc(_)
RECURSIVE ScanAscItems(_, _)
ScanAsc(obj) ==
    IF obj.t = "tup" THEN ScanAscItems(obj.v, 1)
    ELSE With(PyFloat(obj), LAMBDA f :
            IF ~f.raised /\ 0 <= f.v /\ f.v < Deg(360)
            THEN [ok |-> TRUE, v |-> f.v]
            ELSE [ok |-> FALSE, v |-> 0])
ScanAscItems(items, i) ==
    IF i > Len(items) THEN [ok |-> FALSE, v |-> 0]
    ELSE With(ScanAsc(items[i]), LAMBDA val :
            IF val.ok THEN val ELSE ScanAscItems(items, i + 1))

\* Pattern A of safe_houses: result is (cusps, ascmc).
HousesPatternA(result) ==
    /\ Len(result.v) >= 2
    /\ result.v[2].t = "tup"
    /\ Len(result.v[2].v) >= 1

\* Pattern B: the first element of result is ascmc-like; None (ok = FALSE)
\* when it is no tuple or float(first[0]) raises.
HousesPatternB(first) ==
    IF first.t # "tup" THEN [ok |-> FALSE, v |-> 0]
    ELSE With(PyItem(first, 0), LAMBDA inner :
            IF inner.raised THEN [ok |-> FALSE, v |-> 0]
            ELSE With(PyFloat(inner.v), LAMBDA fl :
                    IF fl.raised THEN [ok |-> FALSE, v |-> 0]
                    ELSE [ok |-> TRUE, v |-> fl.v]))

\* Returns <<asc, cusps>>.
safe_houses(jd, lat, lon, hsys, lib) ==
    With(swe_houses(jd, lat, lon, hsys, lib), LAMBDA call :
        IF call.raised THEN call
        ELSE
            With(call.v, LAMBDA result :
            With(\* asc, or None (ok = FALSE), which an exception in the try
                 \* block also leaves
                 IF HousesPatternA(result)
                 THEN With(PyFloat(result.v[2].v[1]), LAMBDA fl :
                          IF fl.raised THEN [ok |-> FALSE, v |-> 0]
                          ELSE [ok |-> TRUE, v |-> fl.v])
                 ELSE With(PyItem(result, 0), LAMBDA first :
                          IF first.raised THEN [ok |-> FALSE, v |-> 0]
                          ELSE With(HousesPatternB(first.v), LAMBDA ascB :
                                  \* Pattern C: scan for a plausible value
                                  IF ascB.ok THEN ascB ELSE ScanAsc(result))),
                 LAMBDA asc :
                IF asc.ok
                THEN Ret(<<PyMod(asc.v, Deg(360)),
                           IF HousesPatternA(result) THEN result.v[1] ELSE Tup(<<>>)>>)
                ELSE Raise("RuntimeError",
                           "Unable to extract ascendant from swe.houses result"))))

----------------------------------------------------------------------------
(* Dicts, rounding and text helpers of the handlers *)

\* A dict is the sequence of its <<key, value>> items in insertion order.
RECURSIVE DictFind(_, _, _)
DictFind(d, key, i) ==
    IF i > Len(d) THEN 0
    ELSE IF d[i][1] = key THEN i
    ELSE DictFind(d, key, i + 1)

\* d[key] = value: a new key is appended, a present key keeps its place.
DictSet(d, key, value) ==
    With(DictFind(d, key, 1), LAMBDA i :
        IF i = 0 THEN Append(d, <<key, value>>)
        ELSE [d EXCEPT ![i] = <<key, value>>])

\* d[key], for a key that is present
DictGet(d, key) == d[DictFind(d, key, 1)][2]

RECURSIVE Pow10(_)
Pow10(n) == IF n = 0 THEN 1 ELSE 10 * Pow10(n - 1)

\* round(x, nd) of a longitude: to the nearest multiple of 10^-nd degrees,
\* ties to even, back on the half-degree grid (every grid value has at most
\* one decimal, so the quotient below is exact).
Round(x, nd) ==
    LET p == Pow10(nd)
        num == Abs(x) * p
        q == num \div 2
        r == num % 2
        n == IF r = 1 /\ q % 2 = 1 THEN q + 1 ELSE q
        back == (2 * n) \div p
    IN  IF x < 0 THEN -back ELSE back

\* c.isalnum() or c in (" ", "_", "-"), over the characters used in names
KeepsChar(c) ==
    c \in {"A", "K", "R", "a", "h", "s", "7", " ", "_", "-"}

RECURSIVE LStrip(_)
LStrip(cs) == IF cs # <<>> /\ Head(cs) = " " THEN LStrip(Tail(cs)) ELSE cs

RECURSIVE RStrip(_)
RStrip(cs) ==
    IF cs # <<>> /\ cs[Len(cs)] = " " THEN RStrip(SubSeq(cs, 1, Len(cs) - 1))
    ELSE cs

\* "".join([c if ... else "_" for c in req.name]).strip()
SafeName(name) ==
    RStrip(LStrip([i \in 1..Len(name) |->
                      IF KeepsChar(name[i]) THEN name[i] ELSE "_"]))

\* datetime.strptime(f"{date} {time}", "%Y-%m-%d %H:%M") on the strings used:
\* <<year, month, day>> and <<hour, minute>>, or <<>> when the text does not
\* match the format.
ParsedDate(date) ==
    CASE date = "2025-01-01" -> <<2025, 1, 1>>
      [] date = "1990-06-15" -> <<1990, 6, 15>>
      [] date = "3500-01-01" -> <<3500, 1, 1>>
      [] OTHER -> <<>>

ParsedTime(time) ==
    CASE time = "00:00" -> <<0, 0>>
      [] time = "18:30" -> <<18, 30>>
      [] OTHER -> <<>>

----------------------------------------------------------------------------
(* Bucketing of the planets into houses *)

\* house_planets[house] = [item]
HouseAssign(hp, house, item) == [hp EXCEPT ![house] = <<item>>]

\* house_planets[house].append(item)
HouseAppend(hp, house, item) == [hp EXCEPT ![house] = Append(@, item)]

\* for graha, lon in planets.items(): ...append(...), from item i on.  The
\* item appended is the name, or for /kundali the name with round(lon, 4).
\* house_planets[house] raises KeyError for a house outside 1..12.
RECURSIVE BucketFrom(_, _, _, _, _)
BucketFrom(hp, planets, asc_long, withLon, i) ==
    IF i > Len(planets) THEN Ret(hp)
    ELSE
        With(planets[i][1], LAMBDA graha :
        With(planets[i][2], LAMBDA lon :
        With(get_house_number(lon, asc_long), LAMBDA house :
        With(IF withLon THEN [name |-> graha, longitude |-> Round(lon, 4)]
             ELSE [name |-> graha],
             LAMBDA item :
            IF house \notin DOMAIN hp THEN Raise("KeyError", "house")
            ELSE BucketFrom(HouseAppend(hp, house, item), planets, asc_long,
                            withLon, i + 1)))))

\* house_planets = {i: [] for i in range(1, 13)} and the loop over planets
Bucket(planets, asc_long, withLon) ==
    BucketFrom([h \in 1..12 |-> <<>>], planets, asc_long, withLon, 1)

----------------------------------------------------------------------------
(* Chart renderers.  Coordinates are in thirds of a point, so that          *)
(* box_w = size / 3 is exact.  The frame (rect and lines) carries no text.  *)

Pt(v) == 3 * v

north_house_centers ==
    LET x0 == Pt(220)
        y0 == Pt(420)
        size == Pt(260)
    IN  << <<x0 + size \div 2, y0 + Pt(8)>>,
           <<x0 + size - Pt(20), y0 + size \div 4 + Pt(8)>>,
           <<x0 + size - Pt(30), y0 + (3 * size) \div 4 - Pt(12)>>,
           <<x0 + size \div 2, y0 + size - Pt(8)>>,
           <<x0 + Pt(12), y0 + (3 * size) \div 4 - Pt(12)>>,
           <<x0 + Pt(12), y0 + size \div 4 + Pt(8)>>,
           <<x0 + size \div 2, y0 + size \div 2>>,
           <<x0 + size \div 4 - Pt(8), y0 + size \div 2>>,
           <<x0 + (3 * size) \div 4 + Pt(10), y0 + size \div 2>>,
           <<x0 + size \div 4 - Pt(8), y0 + (3 * size) \div 4 - Pt(8)>>,
           <<x0 + (3 * size) \div 4 + Pt(10), y0 + (3 * size) \div 4 - Pt(8)>>,
           <<x0 + size \div 4 - Pt(8), y0 + size \div 4 + Pt(8)>> >>

south_house_centers ==
    LET x0 == Pt(220)
        y0 == Pt(420)
        size == Pt(260)
        box_w == size \div 3
        box_h == size \div 4
    IN  << <<x0 + box_w, y0 + Pt(5)>>,
           <<x0 + 2 * box_w, y0 + Pt(5)>>,
           <<x0 + 2 * box_w, y0 + box_h + Pt(5)>>,
           <<x0 + 2 * box_w, y0 + 2 * box_h + Pt(5)>>,
           <<x0 + 2 * box_w, y0 + 3 * box_h + Pt(5)>>,
           <<x0 + box_w, y0 + 3 * box_h + Pt(5)>>,
           <<x0 + Pt(5), y0 + 3 * box_h + Pt(5)>>,
           <<x0 + Pt(5), y0 + 2 * box_h + Pt(5)>>,
           <<x0 + Pt(5), y0 + box_h + Pt(5)>>,
           <<x0 + Pt(5), y0 + Pt(5)>>,
           <<x0 + box_w, y0 + box_h + Pt(5)>>,
           <<x0 + 2 * box_w, y0 + box_h + Pt(5)>> >>

\* for house in range(1, 13): for i, graha in enumerate(plist):
\*     c.setFillColor(color); c.drawString(cx - dx, cy - 6 - i*12, graha)
RECURSIVE DrawLabels(_, _, _, _)
DrawLabels(centers, hp, dx, house) ==
    IF house > 12 THEN <<>>
    ELSE
        LET cx == centers[house][1]
            cy == centers[house][2]
            plist == hp[house]
        IN  [n \in 1..Len(plist) |->
                [x |-> cx - Pt(dx),
                 y |-> cy - Pt(6) - (n - 1) * Pt(12),
                 text |-> plist[n].name,
                 color |-> planet_color(plist[n].name),
                 house |-> house]]
            \o DrawLabels(centers, hp, dx, house + 1)

\* The labels drawn, in drawing order, or the KeyError of the bucketing.
draw_north_chart(planets, asc_long, lang) ==
    With(Bucket(planets, asc_long, FALSE), LAMBDA b :
        IF b.raised THEN b ELSE Ret(DrawLabels(north_house_centers, b.v, 20, 1)))

draw_south_chart(planets, asc_long, lang) ==
    With(Bucket(planets, asc_long, FALSE), LAMBDA b :
        IF b.raised THEN b ELSE Ret(DrawLabels(south_house_centers, b.v, 15, 1)))

----------------------------------------------------------------------------
(* The handlers kundali and kundali_pdf, one step at a time.  A frame holds *)
(* the locals of one call; disk is the state of the temporary directory     *)
(* the call meets, obs the observer the library held at the call's last     *)
(* swe.calc_ut.                                                             *)

InitFrame(req, disk) ==
    [req |-> req, disk |-> disk, pc |-> "parse", k |-> 0,
     dt |-> <<0, 0, 0, 0, 0>>, jd |-> 0, planets |-> <<>>, asc |-> 0,
     obs |-> <<0, 0, 0>>, tmp |-> 0, filename |-> <<>>,
     canvas |-> [blank |-> TRUE], resp |-> [pending |-> TRUE]]

\* except ValueError as e: any other exception leaves the handler.
CatchValueError(f, exc) ==
    IF exc.type = "ValueError"
    THEN [f EXCEPT !.pc = "done", !.resp = [error |-> exc.msg]]
    ELSE [f EXCEPT !.pc = "crashed"]

\* except Exception as e: return {"error": str(e)}
Catch(f, exc) == [f EXCEPT !.pc = "done", !.resp = [error |-> exc.msg]]

\* dt = datetime.strptime(...); jd = swe.julday(...)
DoParse(f) ==
    LET d == ParsedDate(f.req.date)
        t == ParsedTime(f.req.time)
    IN  IF d = <<>> \/ t = <<>>
        THEN Catch(f, Exc("ValueError", "time data does not match format"))
        ELSE [f EXCEPT !.dt = d \o t,
                       !.jd = julday(d[1], d[2], d[3], t[1] * 60 + t[2]),
                       !.pc = "topo"]

\* swe.set_topo(req.lon, req.lat, 0): the observer the library holds after it
TopoSet(f) == <<f.req.lon, f.req.lat, 0>>

DoTopo(f) == [f EXCEPT !.pc = "calc"]

\* Item k of the planets dict: graha_names[req.lang][k]: safe_calc_ut(jd, body)
DoCalc(f, tp, lib) ==
    IF f.req.lang \notin GrahaLangs THEN Catch(f, Exc("KeyError", f.req.lang))
    ELSE
        With(safe_calc_ut(f.jd, Bodies[f.k + 1], tp, lib), LAMBDA c :
            IF c.raised THEN Catch(f, c.exc)
            ELSE [f EXCEPT
                    !.planets = DictSet(@, graha_names(f.req.lang)[f.k + 1], c.v),
                    !.k = f.k + 1,
                    !.obs = tp,
                    !.pc = IF f.k + 1 = Len(Bodies) THEN "ketu" ELSE "calc"])

\* Ketu taken opposite Saturn.
KetuLonSaturn(planets, lang) ==
    PyMod(FAdd(DictGet(planets, graha_names(lang)[7]), Deg(180)), Deg(360))

\* (rahu_lon + 180.0) % 360.0
KetuLon(planets, lang) ==
    PyMod(FAdd(DictGet(planets, graha_names(lang)[8]), Deg(180)), Deg(360))

\* planets[graha_names[req.lang][8]] = (rahu_lon + 180.0) % 360.0
DoKetu(f) ==
    [f EXCEPT !.planets = DictSet(@, graha_names(f.req.lang)[9],
                                  KetuLon(f.planets, f.req.lang)),
              !.pc = "houses"]

\* asc_long, cusps = safe_houses(jd, req.lat, req.lon, req.hsys)
DoHouses(f, lib) ==
    With(safe_houses(f.jd, f.req.lat, f.req.lon, f.req.hsys, lib), LAMBDA h :
        IF h.raised THEN Catch(f, h.exc)
        ELSE [f EXCEPT !.asc = h.v[1],
                       !.pc = IF f.req.endpoint = "kundali" THEN "respond"
                              ELSE "open"])

\* The two placeholder periods.
Dasha(lang) ==
    << [name |-> <<"Mahadasha - ", graha_names(lang)[1]>>,
        start |-> "2025-01-01", end |-> "2031-01-01"],
       [name |-> <<"Mahadasha - ", graha_names(lang)[2]>>,
        start |-> "2031-01-01", end |-> "2041-01-01"] >>

\* kundali, from the house mapping to return resp
DoRespond(f) ==
    With(Bucket(f.planets, f.asc, TRUE), LAMBDA b :
        IF b.raised THEN Catch(f, b.exc)
        ELSE [f EXCEPT
                !.pc = "done",
                !.resp =
                    [name |-> f.req.name,
                     date_time |-> f.dt \o <<0>>,
                     lang |-> f.req.lang,
                     style |-> f.req.style,
                     hsys |-> f.req.hsys,
                     graha_positions |->
                         [i \in 1..Len(f.planets) |->
                             <<f.planets[i][1], Round(f.planets[i][2], 6)>>],
                     ascendant |->
                         [longitude |-> Round(f.asc, 6),
                          degree_in_sign |-> Round(PyMod(f.asc, Deg(30)), 4),
                          sign_index |-> PyFloorDiv(f.asc, Deg(30)) + 1],
                     houses |-> b.v,
                     rashifal |-> rashifal(f.req.lang),
                     dasha |-> Dasha(f.req.lang)]])

\* Paths tempfile.NamedTemporaryFile can hand out.
TmpPaths == 1..3

\* tmp = tempfile.NamedTemporaryFile(delete=False, suffix=".pdf"): an empty
\* file at a path not in use
FilesOpened(fs, path) == fs @@ (path :> [blank |-> TRUE])

\* safe_name, filename, tmp and c = canvas.Canvas(tmp.name, pagesize=A4)
DoOpen(f, path) ==
    [f EXCEPT !.tmp = path,
              !.filename = <<"kundali_">> \o SafeName(f.req.name)
                           \o <<"_", f.req.date, ".pdf">>,
              !.pc = "draw"]

\* kundali_pdf, from the header to the footer: everything drawn on the canvas
DoDraw(f) ==
    With(IF f.req.style = "north"
         THEN draw_north_chart(f.planets, f.asc, f.req.lang)
         ELSE draw_south_chart(f.planets, f.asc, f.req.lang),
         LAMBDA chart :
    With(Bucket(f.planets, f.asc, FALSE), LAMBDA b :
        IF chart.raised THEN Catch(f, chart.exc)
        ELSE IF b.raised THEN Catch(f, b.exc)
        ELSE [f EXCEPT
                !.pc = "save",
                !.canvas =
                    [title |-> "VedhVaani - Kundali Report",
                     name |-> f.req.name,
                     dob |-> <<f.req.date, f.req.time>>,
                     location |-> <<f.req.lat, f.req.lon, f.req.style, f.req.lang>>,
                     rashifal |-> rashifal(f.req.lang),
                     chart |-> chart.v,
                     positions |->
                         [i \in 1..Len(f.planets) |->
                             [x |-> 60, y |-> 302 - 14 * (i - 1),
                              graha |-> f.planets[i][1],
                              lon |-> Round(f.planets[i][2], 4)]],
                     ascendant |->
                         [longitude |-> Round(f.asc, 4),
                          sign_index |-> PyFloorDiv(f.asc, Deg(30)) + 1,
                          degree_in_sign |-> Round(PyMod(f.asc, Deg(30)), 3)],
                     dasha |-> Dasha(f.req.lang),
                     houses |->
                         [h \in 1..12 |->
                             [x |-> 60, y |-> 122 - 12 * (h - 1),
                              planets |-> b.v[h]]],
                     footer |-> "Generated by VedhVaani Kundali Engine"]]))

\* c.save(): the canvas is written to the temporary file
FilesSaved(f, fs) ==
    IF f.disk = "ok" THEN [fs EXCEPT ![f.tmp] = f.canvas] ELSE fs

\* c.showPage(); c.save(); return FileResponse(tmp.name, filename=filename, ...)
DoSave(f) ==
    IF f.disk # "ok" THEN Catch(f, Exc("OSError", "No space left on device"))
    ELSE [f EXCEPT !.pc = "done",
                   !.resp = [path |-> f.tmp, filename |-> f.filename,
                             media_type |-> "application/pdf"]]

\* What the client receives: the JSON object, or the file streamed from the
\* path of the FileResponse.
Body(f, fs) ==
    IF "path" \in DOMAIN f.resp
    THEN [filename |-> f.resp.filename, media_type |-> f.resp.media_type,
          content |-> fs[f.resp.path]]
    ELSE f.resp

\* One request run from start to end with the library and the temporary
\* directory to itself.
RECURSIVE RunAlone(_, _, _, _)
RunAlone(f, tp, fs, lib) ==
    CASE f.pc = "parse" -> RunAlone(DoParse(f), tp, fs, lib)
      [] f.pc = "topo" -> RunAlone(DoTopo(f), TopoSet(f), fs, lib)
      [] f.pc = "calc" -> RunAlone(DoCalc(f, tp, lib), tp, fs, lib)
      [] f.pc = "ketu" -> RunAlone(DoKetu(f), tp, fs, lib)
      [] f.pc = "houses" -> RunAlone(DoHouses(f, lib), tp, fs, lib)
      [] f.pc = "respond" -> RunAlone(DoRespond(f), tp, fs, lib)
      [] f.pc = "open" -> RunAlone(DoOpen(f, 1), tp, FilesOpened(fs, 1), lib)
      [] f.pc = "draw" -> RunAlone(DoDraw(f), tp, fs, lib)
      [] f.pc = "save" -> RunAlone(DoSave(f), tp, FilesSaved(f, fs), lib)
      [] OTHER -> Body(f, fs)

Alone(req, disk, lib) == RunAlone(InitFrame(req, disk), <<0, 0, 0>>, <<>>, lib)

----------------------------------------------------------------------------
(* Requests in progress *)

\* Request r is at step at, and it is its turn.
Turn(r, at) ==
    /\ fr[r].pc = at
    /\ sched = "seq" => \A q \in 1..(r - 1) : fr[q].pc = "done"

Parse(r) ==
    /\ Turn(r, "parse")
    /\ fr' = [fr EXCEPT ![r] = DoParse(@)]
    /\ UNCHANGED <<topo, files, swelib, sched, houseVars, chartVars>>

SetTopo(r) ==
    /\ Turn(r, "topo")
    /\ topo' = TopoSet(fr[r])
    /\ fr' = [fr EXCEPT ![r] = DoTopo(@)]
    /\ UNCHANGED <<files, swelib, sched, houseVars, chartVars>>

Calc(r) ==
    /\ Turn(r, "calc")
    /\ fr' = [fr EXCEPT ![r] = DoCalc(@, topo, swelib)]
    /\ UNCHANGED <<topo, files, swelib, sched, houseVars, chartVars>>

Ketu(r) ==
    /\ Turn(r, "ketu")
    /\ fr' = [fr EXCEPT ![r] = DoKetu(@)]
    /\ UNCHANGED <<topo, files, swelib, sched, houseVars, chartVars>>

Houses(r) ==
    /\ Turn(r, "houses")
    /\ fr' = [fr EXCEPT ![r] = DoHouses(@, swelib)]
    /\ UNCHANGED <<topo, files, swelib, sched, houseVars, chartVars>>

Respond(r) ==
    /\ Turn(r, "respond")
    /\ fr' = [fr EXCEPT ![r] = DoRespond(@)]
    /\ UNCHANGED <<topo, files, swelib, sched, houseVars, chartVars>>

Open(r) ==
    /\ Turn(r, "open")
    /\ \E path \in TmpPaths \ DOMAIN files :
        /\ files' = FilesOpened(files, path)
        /\ fr' = [fr EXCEPT ![r] = DoOpen(@, path)]
    /\ UNCHANGED <<topo, swelib, sched, houseVars, chartVars>>

Draw(r) ==
    /\ Turn(r, "draw")
    /\ fr' = [fr EXCEPT ![r] = DoDraw(@)]
    /\ UNCHANGED <<topo, files, swelib, sched, houseVars, chartVars>>

Save(r) ==
    /\ Turn(r, "save")
    /\ files' = FilesSaved(fr[r], files)
    /\ fr' = [fr EXCEPT ![r] = DoSave(@)]
    /\ UNCHANGED <<topo, swelib, sched, houseVars, chartVars>>

Next ==
    \/ \E r \in DOMAIN fr : Parse(r)
    \/ \E r \in DOMAIN fr : SetTopo(r)
    \/ \E r \in DOMAIN fr : Calc(r)
    \/ \E r \in DOMAIN fr : Ketu(r)
    \/ \E r \in DOMAIN fr : Houses(r)
    \/ \E r \in DOMAIN fr : Respond(r)
    \/ \E r \in DOMAIN fr : Open(r)
    \/ \E r \in DOMAIN fr : Draw(r)
    \/ \E r \in DOMAIN fr : Save(r)

Endpoints == {"kundali", "kundali_pdf"}
Places == {<<0, 0>>, <<19, 73>>, <<80, 15>>}

\* KundaliRequest bodies.
Request(endpoint, name, date, time, place, lang, style) ==
    [endpoint |-> endpoint, name |-> name, date |-> date, time |-> time,
     lat |-> place[1], lon |-> place[2], lang |-> lang, style |-> style,
     hsys |-> "P"]

\* One request of any kind, against any build of the library.
Init ==
    /\ \E endpoint \in Endpoints,
          name \in {<<"A", "s", "h", "a">>, <<" ", "R", "/", "K", "7", " ">>},
          date \in {"2025-01-01", "1990-06-15", "3500-01-01", "not-a-date"},
          time \in {"00:00", "18:30", "25:99"},
          place \in Places,
          lang \in GrahaLangs \cup {"ta"},
          style \in {"north", "south"},
          disk \in {"ok", "full"} :
        fr = <<InitFrame(Request(endpoint, name, date, time, place, lang, style),
                         disk)>>
    /\ topo = <<0, 0, 0>>
    /\ files = <<>>
    /\ swelib \in {"flat", "nested", "tagged", "void"}
    /\ sched = "any"
    /\ IdleHouse
    /\ IdleChart

Spec == Init /\ [][Next]_vars

\* Two requests whose steps interleave in any order.
ConcRequests ==
    {Request(endpoint, <<"A", "s", "h", "a">>, date, "00:00", place, lang, "north") :
        endpoint \in Endpoints, date \in {"2025-01-01", "1990-06-15"},
        place \in {<<0, 0>>, <<19, 73>>}, lang \in {"hi", "ta"}}

InitConc ==
    /\ \E r1 \in ConcRequests, r2 \in ConcRequests :
        fr = <<InitFrame(r1, "ok"), InitFrame(r2, "ok")>>
    /\ topo = <<0, 0, 0>>
    /\ files = <<>>
    /\ swelib = "nested"
    /\ sched = "any"
    /\ IdleHouse
    /\ IdleChart

SpecConc == InitConc /\ [][Next]_vars

\* Two requests, one after the other, that differ only in lang.
InitLang ==
    /\ \E endpoint \in Endpoints, date \in {"2025-01-01", "1990-06-15"},
          place \in {<<0, 0>>, <<19, 73>>}, style \in {"north", "south"},
          lang1 \in GrahaLangs, lang2 \in GrahaLangs :
        fr = <<InitFrame(Request(endpoint, <<"A", "s", "h", "a">>, date, "18:30",
                                 place, lang1, style), "ok"),
               InitFrame(Request(endpoint, <<"A", "s", "h", "a">>, date, "18:30",
                                 place, lang2, style), "ok")>>
    /\ topo = <<0, 0, 0>>
    /\ files = <<>>
    /\ swelib = "nested"
    /\ sched = "seq"
    /\ IdleHouse
    /\ IdleChart

SpecLang == InitLang /\ [][Next]_vars

----------------------------------------------------------------------------
(* Claims about the handlers *)

\* The request of frame f has returned a result that is no error object.
Succeeded(f) == f.pc = "done" /\ "error" \notin DOMAIN f.resp

\* The canvas a successful /kundali-pdf call saved.
SavedCanvas(f) == files[f.resp.path]

\* C4: in every successful /kundali and /kundali-pdf computation the stored
\* Rahu is the mean node the ephemeris returned, the stored Ketu is
\* (Rahu + 180) mod 360 (the plain sum modulo 360 whenever the float sum is
\* exact), and Ketu lies in [0, 360).
KetuOppositeRahu ==
    \A r \in DOMAIN fr :
        Succeeded(fr[r]) =>
            LET names == graha_names(fr[r].req.lang)
                rahu == DegNorm(MeanLon("MEAN_NODE", fr[r].jd))
                ketu == DictGet(fr[r].planets, names[9])
            IN  /\ DictGet(fr[r].planets, names[8]) = rahu
                /\ ketu = PyMod(FAdd(rahu, Deg(180)), Deg(360))
                /\ FAdd(rahu, Deg(180)) = rahu + Deg(180)
                      => ketu = (rahu + Deg(180)) % Deg(360)
                /\ 0 <= ketu /\ ketu < Deg(360)

\* C4 witness: a PDF was produced for a chart whose Rahu is past 180 degrees,
\* so that Ketu wraps around to a smaller longitude.
KetuOppositeRahuWitness ==
    \E r \in DOMAIN fr :
        /\ Succeeded(fr[r])
        /\ fr[r].req.endpoint = "kundali_pdf"
        /\ DictGet(fr[r].planets, graha_names(fr[r].req.lang)[8]) >= Deg(180)
        /\ DictGet(fr[r].planets, graha_names(fr[r].req.lang)[9])
              < DictGet(fr[r].planets, graha_names(fr[r].req.lang)[8])

\* The inputs for which some step of the handler fails: a date or time that
\* does not parse, a language outside the name table, a date the ephemeris
\* does not cover, a library result no longitude or ascendant can be taken
\* from, a latitude without Placidus houses, a PDF that cannot be written.
MustFail(req, disk, lib) ==
    \/ ParsedDate(req.date) = <<>>
    \/ ParsedTime(req.time) = <<>>
    \/ req.lang \notin GrahaLangs
    \/ lib = "void"
    \/ req.hsys = "P" /\ Abs(req.lat) >= 67
    \/ req.endpoint = "kundali_pdf" /\ disk # "ok"
    \/ /\ ParsedDate(req.date) # <<>>
       /\ ParsedTime(req.time) # <<>>
       /\ ~EphemerisCovers(julday(ParsedDate(req.date)[1], ParsedDate(req.date)[2],
                                  ParsedDate(req.date)[3],
                                  ParsedTime(req.time)[1] * 60 + ParsedTime(req.time)[2]))

\* C5: a request whose processing fails at any step ends with an object whose
\* only key is error, holding a string; no failure leaves the handler as an
\* exception or as a partial result.
FailuresReturnErrorObject ==
    \A r \in DOMAIN fr :
        /\ fr[r].pc # "crashed"
        /\ (fr[r].pc = "done" /\ MustFail(fr[r].req, fr[r].disk, swelib)) =>
              /\ DOMAIN fr[r].resp = {"error"}
              /\ fr[r].resp.error \in STRING
        /\ (fr[r].pc = "done" /\ "error" \in DOMAIN fr[r].resp) =>
              DOMAIN fr[r].resp = {"error"}

\* C5 witness: all nine planets were computed, then the ascendant could not
\* be, and the answer is the error object alone.
FailuresReturnErrorObjectWitness ==
    \E r \in DOMAIN fr :
        /\ fr[r].pc = "done"
        /\ Len(fr[r].planets) = 9
        /\ Abs(fr[r].req.lat) >= 67
        /\ DOMAIN fr[r].resp = {"error"}

\* C8: a successful /kundali response for hi, mr or en has exactly nine
\* graha_positions entries, keyed by the nine pairwise distinct names of that
\* language in table order.
NineGrahaPositions ==
    \A r \in DOMAIN fr :
        (Succeeded(fr[r]) /\ fr[r].req.endpoint = "kundali") =>
            LET gp == fr[r].resp.graha_positions
            IN  /\ Len(gp) = 9
                /\ \A i \in 1..Len(gp) : gp[i][1] = graha_names(fr[r].req.lang)[i]
                /\ \A i, j \in 1..Len(gp) : i # j => gp[i][1] # gp[j][1]

\* C8 witness: a successful Marathi /kundali response.
NineGrahaPositionsWitness ==
    \E r \in DOMAIN fr :
        /\ Succeeded(fr[r])
        /\ fr[r].req.endpoint = "kundali"
        /\ fr[r].req.lang = "mr"
        /\ Len(fr[r].resp.graha_positions) = 9

\* The names listed per house in the result of a successful call: the houses
\* object of /kundali, the houses listing of the PDF.
HouseLists(f) ==
    IF f.req.endpoint = "kundali"
    THEN [h \in DOMAIN f.resp.houses |->
            [n \in 1..Len(f.resp.houses[h]) |-> f.resp.houses[h][n].name]]
    ELSE [h \in DOMAIN SavedCanvas(f).houses |->
            [n \in 1..Len(SavedCanvas(f).houses[h].planets) |->
                SavedCanvas(f).houses[h].planets[n].name]]

\* The places <<house, index>> at which name is listed.
ListedAt(hp, name) ==
    {hn \in (DOMAIN hp) \X (1..9) : hn[2] <= Len(hp[hn[1]]) /\ hp[hn[1]][hn[2]] = name}

RECURSIVE TotalListed(_, _)
TotalListed(hp, h) == IF h = 0 THEN 0 ELSE Len(hp[h]) + TotalListed(hp, h - 1)

\* C10: the house-to-planet mapping of every successful call has exactly the
\* keys 1..12, lists each of the nine planets once, in the house
\* get_house_number gives for its longitude, and nothing else; the chart of
\* a PDF labels each planet once, in that house.
HousesPartitionPlanets ==
    \A r \in DOMAIN fr :
        Succeeded(fr[r]) =>
            /\ DOMAIN HouseLists(fr[r]) = 1..12
            /\ Len(fr[r].planets) = 9
            /\ TotalListed(HouseLists(fr[r]), 12) = 9
            /\ \A i \in 1..Len(fr[r].planets) :
                  /\ Cardinality(ListedAt(HouseLists(fr[r]), fr[r].planets[i][1])) = 1
                  /\ \E hn \in ListedAt(HouseLists(fr[r]), fr[r].planets[i][1]) :
                        hn[1] = get_house_number(fr[r].planets[i][2], fr[r].asc)
            /\ fr[r].req.endpoint = "kundali_pdf" =>
                  /\ Len(SavedCanvas(fr[r]).chart) = 9
                  /\ \A i \in 1..Len(fr[r].planets) :
                        \E n \in 1..Len(SavedCanvas(fr[r]).chart) :
                            /\ SavedCanvas(fr[r]).chart[n].text = fr[r].planets[i][1]
                            /\ SavedCanvas(fr[r]).chart[n].house =
                                  get_house_number(fr[r].planets[i][2], fr[r].asc)

\* C10 witness: a successful call in which three planets share a house.
HousesPartitionPlanetsWitness ==
    \E r \in DOMAIN fr :
        /\ Succeeded(fr[r])
        /\ \E h \in 1..12 : Len(HouseLists(fr[r])[h]) >= 3

\* C6: whatever the interleaving of the steps of two requests, each response
\* is the one the request gets when it runs alone.
ResponsesAsIfAlone ==
    \A r \in DOMAIN fr :
        fr[r].pc = "done" =>
            Body(fr[r], files) = Alone(fr[r].req, fr[r].disk, swelib)

\* C6 witness: a request succeeded although its last swe.calc_ut ran while the
\* library held the observer of the other request.
ResponsesAsIfAloneWitness ==
    \E r \in DOMAIN fr :
        /\ Succeeded(fr[r])
        /\ fr[r].obs # TopoSet(fr[r])

\* The label drawn for the graha of the given name.
LabelOf(chart, name) == chart[CHOOSE n \in 1..Len(chart) : chart[n].text = name]

\* The house in which name is listed.
HouseOf(hp, name) == (CHOOSE hn \in ListedAt(hp, name) : TRUE)[1]

\* Two successful calls agree on body i but for its name, colours aside.
SameBody(f, g, i) ==
    /\ f.planets[i][2] = g.planets[i][2]
    /\ HouseOf(HouseLists(f), graha_names(f.req.lang)[i])
          = HouseOf(HouseLists(g), graha_names(g.req.lang)[i])
    /\ f.req.endpoint = "kundali_pdf" =>
          /\ LabelOf(SavedCanvas(f).chart, graha_names(f.req.lang)[i]).x
                = LabelOf(SavedCanvas(g).chart, graha_names(g.req.lang)[i]).x
          /\ LabelOf(SavedCanvas(f).chart, graha_names(f.req.lang)[i]).y
                = LabelOf(SavedCanvas(g).chart, graha_names(g.req.lang)[i]).y

\* Two successful calls draw body i in the same colour.
SameColour(f, g, i) ==
    f.req.endpoint = "kundali_pdf" =>
        LabelOf(SavedCanvas(f).chart, graha_names(f.req.lang)[i]).color
            = LabelOf(SavedCanvas(g).chart, graha_names(g.req.lang)[i]).color

\* C7: for two requests that differ only in lang (hi, mr or en), each body
\* has the same longitude and house, the ascendant is the same, and in the
\* PDF chart its label is drawn at the same position and in the same colour.
LangChangesOnlyNames ==
    (Len(fr) = 2 /\ Succeeded(fr[1]) /\ Succeeded(fr[2])) =>
        /\ fr[1].asc = fr[2].asc
        /\ \A i \in 1..9 : SameBody(fr[1], fr[2], i) /\ SameColour(fr[1], fr[2], i)

\* C7 but for the colours: longitudes, houses, ascendant and label positions
\* do not depend on lang.
LangKeepsPlaces ==
    (Len(fr) = 2 /\ Succeeded(fr[1]) /\ Succeeded(fr[2])) =>
        /\ fr[1].asc = fr[2].asc
        /\ \A i \in 1..9 : SameBody(fr[1], fr[2], i)

----------------------------------------------------------------------------
(* The chart renderers on planets placed in chosen houses.  Any two labels  *)
(* belong to at most two houses, and label n of one house and label m of    *)
(* another exist together only if n + m <= 9, so placing the first k        *)
(* planets in one house and the others in a second covers every pair of     *)
(* labels that nine planets can produce.                                    *)

\* A longitude in the middle of the given house.
MidHouse(asc_long, house) == (asc_long + Deg(30) * (house - 1) + Deg(15)) % Deg(360)

\* The planets dict with the first k planets in house h1, the others in h2.
PlacedPlanets(lang, asc_long, h1, h2, k) ==
    [i \in 1..9 |->
        <<graha_names(lang)[i], MidHouse(asc_long, IF i <= k THEN h1 ELSE h2)>>]

InitChart ==
    /\ cpc = "in"
    /\ cStyle \in {"north", "south"}
    /\ cAsc \in {0, Deg(100)}
    /\ cLang \in GrahaLangs
    /\ \E h1 \in 1..12, h2 \in 1..12, k \in 0..9 :
        cPlanets = PlacedPlanets(cLang, cAsc, h1, h2, k)
    /\ cLabels = <<>>
    /\ IdleHouse
    /\ IdleRequests

\* draw_north_chart(c, planets, asc_long, lang) or draw_south_chart(...)
DrawChart ==
    /\ cpc = "in"
    /\ cLabels' = (IF cStyle = "south"
                   THEN draw_south_chart(cPlanets, cAsc, cLang)
                   ELSE draw_north_chart(cPlanets, cAsc, cLang)).v
    /\ cpc' = "drawn"
    /\ UNCHANGED <<cStyle, cPlanets, cAsc, cLang, houseVars, reqVars>>

NextChart == DrawChart

SpecChart == InitChart /\ [][NextChart]_vars

\* C9: in every chart drawn, in either layout and for every placement of the
\* nine planets, no two labels are drawn at the same (x, y).
ChartLabelsDistinct ==
    cpc = "drawn" =>
        \A m, n \in 1..Len(cLabels) :
            m # n => <<cLabels[m].x, cLabels[m].y>> # <<cLabels[n].x, cLabels[n].y>>

\* C9 for the north layout alone.
NorthLabelsDistinct ==
    (cpc = "drawn" /\ cStyle = "north") =>
        \A m, n \in 1..Len(cLabels) :
            m # n => <<cLabels[m].x, cLabels[m].y>> # <<cLabels[n].x, cLabels[n].y>>

\* In the south layout two labels coincide only between houses 3 and 12.
SouthCollidesOnlyIn3And12 ==
    (cpc = "drawn" /\ cStyle = "south") =>
        \A m, n \in 1..Len(cLabels) :
            (m # n /\ <<cLabels[m].x, cLabels[m].y>> = <<cLabels[n].x, cLabels[n].y>>)
                => {cLabels[m].house, cLabels[n].house} = {3, 12}

\* Every chart drawn has the nine labels, each in the house it was placed in.
ChartDrawsAllNine ==
    cpc = "drawn" =>
        /\ Len(cLabels) = 9
        /\ \A i \in 1..9 : \E n \in 1..Len(cLabels) :
              /\ cLabels[n].text = cPlanets[i][1]
              /\ MidHouse(cAsc, cLabels[n].house) = cPlanets[i][2]

====
